---- MODULE Spec2Model ----
(***************************************************************************)
(* A model of bluepad.py: the BluePad class, a host-side driver that packs *)
(* NeoPixel and servo commands into fixed-width frames, hands them to a    *)
(* call-by-name transport (PUPRemoteHub.call) and decodes gamepad button   *)
(* masks.  The state is the instance's fields, the module-level name       *)
(* cur_mode that servo() assigns, and a record of the last operation: its  *)
(* arguments, the transport calls it issued and what it returned.          *)
(***************************************************************************)
EXTENDS Integers, Sequences, FiniteSets, TLC

(* ---- opcodes, bluepad.py lines 10-14 ---------------------------------- *)
FILL == 16
ZERO == 32
SET == 48
CONFIG == 64
WRITE == 128

(* ---- widths and defaults of the program ------------------------------- *)
FrameLen == 16
NumServos == 4
DefaultLeds == 64
ServoRange == 180
MaskBits == 16
PosBits == 16
MaxMultiLeds == 4

(* ---- bounds of the model ---------------------------------------------- *)
MaxLeds == 2
MaxIdx == 2
MaxCount == 5
MaxArrLen == 15

RECURSIVE Pow2(_)
Pow2(n) == IF n = 0 THEN 1 ELSE 2 * Pow2(n - 1)

Min(a, b) == IF a < b THEN a ELSE b
Max(a, b) == IF a > b THEN a ELSE b

(* ---- inputs the operations are called with ---------------------------- *)
LedCounts == 0..MaxLeds
Pins == {4, 21}
Colors == {<<10, 20, 30>>, <<255, 0, 128>>}
LedIdx == (0..MaxIdx) \cup {DefaultLeds - 1, DefaultLeds}
Starts == {0, 7}
Counts == 0..MaxCount
LedArr(len) == [i \in 1..len |-> (37 * i + 1) % 256]
LedArrs == {LedArr(len) : len \in 0..MaxArrLen}
ServoIdx == 0..(NumServos - 1)
ServoPositions == {-181, -1, 0, 185, 32767}
Int16 == (-Pow2(PosBits - 1))..(Pow2(PosBits - 1) - 1)
Masks == 0..(Pow2(MaskBits) - 1)
SampleMasks == {0, 5, 9, 255, 4096}

VARIABLES cur_mode, nr_leds, g_cur_mode, op, calls, ret, labels,
          pre_mode, pre_nr_leds, last_cmd, cfg_leds, in_pos, in_mask

vars == <<cur_mode, nr_leds, g_cur_mode, op, calls, ret, labels,
          pre_mode, pre_nr_leds, last_cmd, cfg_leds, in_pos, in_mask>>

(* ---- Python primitives the code uses ---------------------------------- *)

\* a | b on bytes
RECURSIVE BitOr(_, _)
BitOr(a, b) ==
    IF a = 0 THEN b
    ELSE IF b = 0 THEN a
    ELSE Max(a % 2, b % 2) + 2 * BitOr(a \div 2, b \div 2)

\* a % b of Python for b > 0: the result has the sign of the divisor
PyMod(a, b) == IF a >= 0 THEN a % b ELSE (b - ((-a) % b)) % b

\* [0]*n
Zeros(n) == [i \in 1..n |-> 0]

\* l[i] = v, i counted from 0
ItemAssign(l, i, v) == [l EXCEPT ![i + 1] = v]

\* l[lo:hi] = vals, lo and hi counted from 0 and clamped to the list
SliceAssign(l, lo, hi, vals) ==
    LET a == Min(lo, Len(l))
        b == Max(a, Min(hi, Len(l)))
    IN  SubSeq(l, 1, a) \o vals \o SubSeq(l, b + 1, Len(l))

\* [int(i) for i in bin(n)[2:]] reversed: the bits of n, least significant first
RECURSIVE Bits(_)
Bits(n) == IF n < 2 THEN <<n>> ELSE <<n % 2>> \o Bits(n \div 2)

\* [j for i,j in zip(bits, vals) if i]
RECURSIVE ZipSelect(_, _, _)
ZipSelect(bits, vals, k) ==
    IF k = 0 THEN <<>>
    ELSE ZipSelect(bits, vals, k - 1)
         \o (IF bits[k] # 0 THEN <<vals[k]>> ELSE <<>>)

(* ---- the label tables -------------------------------------------------- *)
BtnValNintendo == <<"B", "A", "Y", "X", "L", "R", "ZL", "ZR">>
BtnValStandard == <<"X", "O", "[]", "V">>
DpadValNintendo == <<"U", "D", "R", "L">>
DpadValStandard == <<"D", "R", "L", "U">>

btns_labels(btns, nintendo) ==
    LET bits_btns == Bits(btns)
        btn_val == IF nintendo THEN BtnValNintendo ELSE BtnValStandard
    IN  ZipSelect(bits_btns, btn_val, Min(Len(bits_btns), Len(btn_val)))

dpad_labels(btns, nintendo) ==
    LET bits_btns == Bits(btns)
        btn_val == IF nintendo THEN DpadValNintendo ELSE DpadValStandard
    IN  ZipSelect(bits_btns, btn_val, Min(Len(bits_btns), Len(btn_val)))

(* ---- the frames each operation builds ---------------------------------- *)
InitFrame(n, pin) ==
    ItemAssign(ItemAssign(ItemAssign(Zeros(FrameLen), 0, CONFIG), 1, n), 2, pin)

FillFrame_short(color, write) ==
    SliceAssign(ItemAssign(Zeros(FrameLen), 0,
                           IF write THEN BitOr(FILL, WRITE) ELSE FILL),
                1, 3, color)

FillFrame(color, write) ==
    SliceAssign(ItemAssign(Zeros(FrameLen), 0,
                           IF write THEN BitOr(FILL, WRITE) ELSE FILL),
                1, 4, color)

ZeroFrame(write) ==
    ItemAssign(Zeros(FrameLen), 0, IF write THEN BitOr(ZERO, WRITE) ELSE FILL)

\* the frame before the bounds test: leds[0], leds[1], leds[2]
SetHead(led_nr, write) ==
    ItemAssign(ItemAssign(ItemAssign(Zeros(FrameLen), 0,
        IF write THEN BitOr(SET, WRITE) ELSE FILL), 1, 1), 2, led_nr)

SetFrame(led_nr, color, write) ==
    SliceAssign(SetHead(led_nr, write), 3, 6, color)

SetRejected_gt(led_nr, leds) == led_nr > leds

SetRejected(led_nr, leds) == led_nr >= leds

MultiHead(start_led, nr_led, write) ==
    ItemAssign(ItemAssign(ItemAssign(Zeros(FrameLen), 0,
        IF write THEN BitOr(SET, WRITE) ELSE FILL), 1, nr_led), 2, start_led)

MultiFrame_shifted(start_led, nr_led, led_arr, write) ==
    SliceAssign(MultiHead(start_led, nr_led, write), 2, 2 + nr_led * 3, led_arr)

MultiFrame(start_led, nr_led, led_arr, write) ==
    SliceAssign(MultiHead(start_led, nr_led, write), 3, 3 + nr_led * 3, led_arr)

TruncMod(a, b) == IF a >= 0 THEN a % b ELSE -((-a) % b)

ServoPos_trunc(pos) == TruncMod(pos, ServoRange)

ServoPos(pos) == PyMod(pos, ServoRange)

ServoFrame(servo_nr, pos) ==
    ItemAssign(Zeros(NumServos), servo_nr, ServoPos(pos))

(* ---- the transport ----------------------------------------------------- *)
\* PUPRemoteHub.call(name, *args): the call is issued, and either a reply
\* comes back or the transport's error propagates as an exception.
Call(name, args) == <<name, args>>
Outcome(ok) == IF ok THEN "reply" ELSE "raised"

OpRec(name, x, y, arr, flag) ==
    [name |-> name, x |-> x, y |-> y, arr |-> arr, flag |-> flag]

\* what every operation records of the state it was called in
Entered == /\ pre_mode' = cur_mode
           /\ pre_nr_leds' = nr_leds
           /\ UNCHANGED <<in_pos, in_mask>>

(* ---- construction ------------------------------------------------------ *)
InitLink ==
    /\ cur_mode = 0
    /\ nr_leds = DefaultLeds
    /\ g_cur_mode = <<>>
    /\ op = OpRec("__init__", 0, 0, <<>>, FALSE)
    /\ calls = <<>>
    /\ ret = "None"
    /\ labels = <<>>
    /\ pre_mode = 0
    /\ pre_nr_leds = DefaultLeds
    /\ last_cmd = "none"
    /\ cfg_leds = DefaultLeds

Init == InitLink /\ in_pos = 0 /\ in_mask = 0

(* ---- operations -------------------------------------------------------- *)
gamepad(ok) ==
    /\ Entered
    /\ op' = OpRec("gamepad", 0, 0, <<>>, FALSE)
    /\ labels' = <<>>
    /\ IF cur_mode = 0
       THEN calls' = <<Call("gpled", <<>>)>> /\ ret' = Outcome(ok)
       ELSE IF cur_mode = 1
       THEN calls' = <<Call("gpsrv", <<>>)>> /\ ret' = Outcome(ok)
       ELSE calls' = <<>> /\ ret' = "None"
    /\ UNCHANGED <<cur_mode, nr_leds, g_cur_mode, last_cmd, cfg_leds>>

btns_pressed(btns, nintendo) ==
    /\ pre_mode' = cur_mode
    /\ pre_nr_leds' = nr_leds
    /\ op' = OpRec("btns_pressed", btns, 0, <<>>, nintendo)
    /\ labels' = btns_labels(btns, nintendo)
    /\ calls' = <<>>
    /\ ret' = "labels"
    /\ UNCHANGED <<cur_mode, nr_leds, g_cur_mode, last_cmd, cfg_leds, in_pos, in_mask>>

dpad_pressed(btns, nintendo) ==
    /\ pre_mode' = cur_mode
    /\ pre_nr_leds' = nr_leds
    /\ op' = OpRec("dpad_pressed", btns, 0, <<>>, nintendo)
    /\ labels' = dpad_labels(btns, nintendo)
    /\ calls' = <<>>
    /\ ret' = "labels"
    /\ UNCHANGED <<cur_mode, nr_leds, g_cur_mode, last_cmd, cfg_leds, in_pos, in_mask>>

neopixel_init_eager(n, pin, ok) ==
    /\ Entered
    /\ op' = OpRec("neopixel_init", n, pin, <<>>, TRUE)
    /\ labels' = <<>>
    /\ calls' = <<Call("gpled", InitFrame(n, pin))>>
    /\ ret' = Outcome(ok)
    /\ cur_mode' = 0
    /\ nr_leds' = n
    /\ IF ok
       THEN last_cmd' = "led" /\ cfg_leds' = n
       ELSE UNCHANGED <<last_cmd, cfg_leds>>
    /\ UNCHANGED g_cur_mode

neopixel_init_pin(n, pin, ok) ==
    /\ Entered
    /\ op' = OpRec("neopixel_init", n, pin, <<>>, TRUE)
    /\ labels' = <<>>
    /\ calls' = <<Call("gpled", InitFrame(n, pin))>>
    /\ ret' = Outcome(ok)
    /\ IF ok
       THEN cur_mode' = 0 /\ nr_leds' = pin /\ last_cmd' = "led" /\ cfg_leds' = n
       ELSE UNCHANGED <<cur_mode, nr_leds, last_cmd, cfg_leds>>
    /\ UNCHANGED g_cur_mode

neopixel_init(n, pin, ok) ==
    /\ Entered
    /\ op' = OpRec("neopixel_init", n, pin, <<>>, TRUE)
    /\ labels' = <<>>
    /\ calls' = <<Call("gpled", InitFrame(n, pin))>>
    /\ ret' = Outcome(ok)
    /\ IF ok
       THEN cur_mode' = 0 /\ nr_leds' = n /\ last_cmd' = "led" /\ cfg_leds' = n
       ELSE UNCHANGED <<cur_mode, nr_leds, last_cmd, cfg_leds>>
    /\ UNCHANGED g_cur_mode

neopixel_fill(color, write, ok) ==
    /\ Entered
    /\ op' = OpRec("neopixel_fill", 0, 0, color, write)
    /\ labels' = <<>>
    /\ calls' = <<Call("gpled", FillFrame(color, write))>>
    /\ ret' = Outcome(ok)
    /\ IF ok
       THEN cur_mode' = 0 /\ last_cmd' = "led"
       ELSE UNCHANGED <<cur_mode, last_cmd>>
    /\ UNCHANGED <<nr_leds, g_cur_mode, cfg_leds>>

neopixel_zero(write, ok) ==
    /\ Entered
    /\ op' = OpRec("neopixel_zero", 0, 0, <<>>, write)
    /\ labels' = <<>>
    /\ calls' = <<Call("gpled", ZeroFrame(write))>>
    /\ ret' = Outcome(ok)
    /\ IF ok
       THEN cur_mode' = 0 /\ last_cmd' = "led"
       ELSE UNCHANGED <<cur_mode, last_cmd>>
    /\ UNCHANGED <<nr_leds, g_cur_mode, cfg_leds>>

neopixel_set(led_nr, color, write, ok) ==
    /\ Entered
    /\ op' = OpRec("neopixel_set", led_nr, 0, color, write)
    /\ labels' = <<>>
    /\ IF SetRejected(led_nr, nr_leds)
       THEN /\ calls' = <<>>
            /\ ret' = "None"
            /\ cur_mode' = 0
            /\ UNCHANGED last_cmd
       ELSE /\ calls' = <<Call("gpled", SetFrame(led_nr, color, write))>>
            /\ ret' = Outcome(ok)
            /\ IF ok
               THEN cur_mode' = 0 /\ last_cmd' = "led"
               ELSE UNCHANGED <<cur_mode, last_cmd>>
    /\ UNCHANGED <<nr_leds, g_cur_mode, cfg_leds>>

neopixel_set_multi(start_led, nr_led, led_arr, write, ok) ==
    /\ Entered
    /\ op' = OpRec("neopixel_set_multi", start_led, nr_led, led_arr, write)
    /\ labels' = <<>>
    /\ IF nr_led > MaxMultiLeds \/ Len(led_arr) # 3 * nr_led
       THEN /\ calls' = <<>>
            /\ ret' = "None"
            /\ cur_mode' = 0
            /\ UNCHANGED last_cmd
       ELSE /\ calls' = <<Call("gpled", MultiFrame(start_led, nr_led, led_arr, write))>>
            /\ ret' = Outcome(ok)
            /\ IF ok
               THEN cur_mode' = 0 /\ last_cmd' = "led"
               ELSE UNCHANGED <<cur_mode, last_cmd>>
    /\ UNCHANGED <<nr_leds, g_cur_mode, cfg_leds>>

servo_own_mode(servo_nr, pos, ok) ==
    /\ Entered
    /\ op' = OpRec("servo", servo_nr, pos, <<>>, TRUE)
    /\ labels' = <<>>
    /\ calls' = <<Call("gpsrv", ServoFrame(servo_nr, pos))>>
    /\ ret' = Outcome(ok)
    /\ IF ok
       THEN cur_mode' = 2 /\ last_cmd' = "servo"
       ELSE UNCHANGED <<cur_mode, last_cmd>>
    /\ UNCHANGED <<g_cur_mode, nr_leds, cfg_leds>>

\* servo() declares "global cur_mode": its assignment binds the module-level
\* name, and self.cur_mode is left as it was.
servo(servo_nr, pos, ok) ==
    /\ Entered
    /\ op' = OpRec("servo", servo_nr, pos, <<>>, TRUE)
    /\ labels' = <<>>
    /\ calls' = <<Call("gpsrv", ServoFrame(servo_nr, pos))>>
    /\ ret' = Outcome(ok)
    /\ IF ok
       THEN g_cur_mode' = <<1>> /\ last_cmd' = "servo"
       ELSE UNCHANGED <<g_cur_mode, last_cmd>>
    /\ UNCHANGED <<cur_mode, nr_leds, cfg_leds>>

(* ---- the link driven through its public operations --------------------- *)
Next ==
    \/ \E ok \in BOOLEAN : gamepad(ok)
    \/ \E m \in SampleMasks, n \in BOOLEAN : btns_pressed(m, n)
    \/ \E m \in SampleMasks, n \in BOOLEAN : dpad_pressed(m, n)
    \/ \E n \in LedCounts, pin \in Pins, ok \in BOOLEAN : neopixel_init(n, pin, ok)
    \/ \E c \in Colors, w \in BOOLEAN, ok \in BOOLEAN : neopixel_fill(c, w, ok)
    \/ \E w \in BOOLEAN, ok \in BOOLEAN : neopixel_zero(w, ok)
    \/ \E i \in LedIdx, c \in Colors, w \in BOOLEAN, ok \in BOOLEAN :
          neopixel_set(i, c, w, ok)
    \/ \E s \in Starts, k \in Counts, a \in LedArrs, w \in BOOLEAN, ok \in BOOLEAN :
          neopixel_set_multi(s, k, a, w, ok)
    \/ \E i \in ServoIdx, p \in ServoPositions, ok \in BOOLEAN : servo(i, p, ok)

Spec == Init /\ [][Next]_vars

(* ---- servo() over every 16-bit position -------------------------------- *)
InitServo == InitLink /\ in_pos \in Int16 /\ in_mask = 0

NextServo == \E i \in ServoIdx, ok \in BOOLEAN : servo(i, in_pos, ok)

SpecServo == InitServo /\ [][NextServo]_vars

(* ---- the decoders over every 16-bit mask ------------------------------- *)
InitDecode == InitLink /\ in_pos = 0 /\ in_mask \in Masks

NextDecode ==
    \/ \E n \in BOOLEAN : btns_pressed(in_mask, n)
    \/ \E n \in BOOLEAN : dpad_pressed(in_mask, n)

SpecDecode == InitDecode /\ [][NextDecode]_vars

(* ======================================================================== *)
(* The claims                                                               *)
(* ======================================================================== *)
CommandOps == {"neopixel_init", "neopixel_fill", "neopixel_zero",
               "neopixel_set", "neopixel_set_multi", "servo"}
LedOps == CommandOps \ {"servo"}

\* the frame of the only transport call of the last operation
Frame == calls[1][2]
CallName == calls[1][1]

\* C1: poll_gamepad invokes the remote call that matches the last successful
\* command: 'gpsrv' after set_servo, 'gpled' after an LED operation or when no
\* command was issued yet.
C1_PollFollowsLastCommand ==
    op.name = "gamepad" =>
        /\ Len(calls) = 1
        /\ CallName = (IF last_cmd = "servo" THEN "gpsrv" ELSE "gpled")

\* C2: when the transport call of a command-issuing operation fails, the
\* link's mode and nr_leds are what they were before the operation.
C2_FailedCallKeepsState ==
    (op.name \in CommandOps /\ ret = "raised") =>
        /\ cur_mode = pre_mode
        /\ nr_leds = pre_nr_leds

C2_Witness ==
    /\ op.name = "neopixel_init"
    /\ ret = "raised"
    /\ op.x # nr_leds
    /\ Len(calls) = 1

\* C3: set_one with led_index >= nr_leds returns the validation error and issues
\* no transport call; with led_index < nr_leds it issues exactly one 'gpled'
\* call whose frame has byte1 = 1, byte2 = led_index, bytes 3..5 = the colour.
C3_SetOneBounds ==
    op.name = "neopixel_set" =>
        IF op.x >= pre_nr_leds
        THEN calls = <<>> /\ ret = "None"
        ELSE /\ Len(calls) = 1
             /\ CallName = "gpled"
             /\ ret # "None"
             /\ Frame[2] = 1
             /\ Frame[3] = op.x
             /\ SubSeq(Frame, 4, 6) = op.arr

C3_Witness ==
    /\ op.name = "neopixel_set"
    /\ pre_nr_leds # DefaultLeds
    /\ op.x = pre_nr_leds - 1
    /\ Len(calls) = 1

\* C4: for count in 0..4 and a colour sequence of matching length, set_multi
\* issues one 'gpled' call whose 16-byte frame has byte1 = count, byte2 =
\* start_led, the flattened colours from byte 3 on and zeros after them; for
\* count > 4 or a length that does not match, no transport call occurs and the
\* validation error is returned.
C4_SetMultiFrame ==
    op.name = "neopixel_set_multi" =>
        IF op.y \in 0..4 /\ Len(op.arr) = 3 * op.y
        THEN /\ Len(calls) = 1
             /\ CallName = "gpled"
             /\ Len(Frame) = 16
             /\ Frame[2] = op.y
             /\ Frame[3] = op.x
             /\ \A i \in 1..(3 * op.y) : Frame[3 + i] = op.arr[i]
             /\ \A j \in (4 + 3 * op.y)..16 : Frame[j] = 0
        ELSE calls = <<>> /\ ret = "None"

C4_Witness ==
    /\ op.name = "neopixel_set_multi"
    /\ op.y = 4
    /\ op.x = 7
    /\ Len(op.arr) = 12
    /\ Len(calls) = 1
    /\ ret = "reply"

\* C5: for every servo_index in 0..3 and every signed 16-bit position,
\* set_servo sends via 'gpsrv' a 4-element frame whose element servo_index is
\* position mod 180, in 0..179, and whose other elements are 0, whatever
\* earlier set_servo calls set.
C5_ServoFrame ==
    op.name = "servo" =>
        /\ Len(calls) = 1
        /\ CallName = "gpsrv"
        /\ Len(Frame) = 4
        /\ Frame[op.x + 1] \in 0..179
        /\ \E q \in -183..183 : op.y = 180 * q + Frame[op.x + 1]
        /\ \A i \in 1..4 : i # op.x + 1 => Frame[i] = 0

C5_Witness ==
    /\ op.name = "servo"
    /\ op.x = 2
    /\ op.y = -32768
    /\ ret = "reply"
    /\ g_cur_mode = <<1>>
    /\ Frame = <<0, 0, 172, 0>>

\* the labels at the indices i, ascending, for which bit i of mask is set and
\* i is below the length of table
ClaimedLabels(table, mask) ==
    LET S == {i \in 0..(Len(table) - 1) : (mask \div Pow2(i)) % 2 = 1}
        Nth(k) == CHOOSE i \in S : Cardinality({j \in S : j < i}) = k - 1
    IN  [k \in 1..Cardinality(S) |-> table[Nth(k) + 1]]

ClaimedButtons(nintendo) ==
    IF nintendo THEN <<"B", "A", "Y", "X", "L", "R", "ZL", "ZR">>
    ELSE <<"X", "O", "[]", "Δ">>

ClaimedDpad(nintendo) ==
    IF nintendo THEN <<"U", "D", "R", "L">> ELSE <<"D", "R", "L", "U">>

\* C6: for every 16-bit mask and both layouts, decode_buttons and decode_dpad
\* return the labels at the set bits below the table length, in ascending bit
\* order, from the tables standard buttons X, O, [], Δ, Nintendo buttons B, A,
\* Y, X, L, R, ZL, ZR, standard d-pad D, R, L, U, Nintendo d-pad U, D, R, L.
C6_DecodersMatchTables ==
    /\ op.name = "btns_pressed" =>
           labels = ClaimedLabels(ClaimedButtons(op.flag), op.x)
    /\ op.name = "dpad_pressed" =>
           labels = ClaimedLabels(ClaimedDpad(op.flag), op.x)

\* C7: every frame a valid set_one or set_multi sends has byte0 = SET|WRITE
\* (0xB0) when write is true and SET (0x30) when write is false.
C7_SetOpcode ==
    (op.name \in {"neopixel_set", "neopixel_set_multi"} /\ calls # <<>>) =>
        Frame[1] = (IF op.flag THEN 176 ELSE 48)

\* C8: nr_leds is the led_count of the most recent successful init_led_strip,
\* or 64 when none succeeded; no other operation changes it, and set_one
\* reaches the transport exactly when its index is below that value.
C8_NrLedsShadow ==
    /\ nr_leds = cfg_leds
    /\ (op.name # "neopixel_init" \/ ret # "reply") => nr_leds = pre_nr_leds
    /\ (op.name = "neopixel_init" /\ ret = "reply") => nr_leds = op.x
    /\ op.name = "neopixel_set" => ((calls # <<>>) <=> (op.x < cfg_leds))

C8_Witness ==
    /\ op.name = "neopixel_set"
    /\ cfg_leds = 1
    /\ op.x = 1
    /\ calls = <<>>
    /\ last_cmd = "servo"

\* the number of bytes after byte0 that the last operation fills in
PayloadLen ==
    CASE op.name = "neopixel_init" -> 2
      [] op.name = "neopixel_fill" -> 3
      [] op.name = "neopixel_zero" -> 0
      [] op.name = "neopixel_set" -> 5
      [] op.name = "neopixel_set_multi" -> 2 + 3 * op.y
      [] OTHER -> 0

\* C9: every frame the LED operations pass to 'gpled' has exactly 16 entries,
\* each in 0..255, byte0 without the WRITE bit is one of FILL, ZERO, SET,
\* CONFIG, and every byte after the operation's payload is zero.
C9_LedFrameShape ==
    (op.name \in LedOps /\ calls # <<>>) =>
        /\ Len(calls) = 1
        /\ CallName = "gpled"
        /\ Len(Frame) = 16
        /\ \A i \in 1..Len(Frame) : Frame[i] \in 0..255
        /\ (IF Frame[1] >= 128 THEN Frame[1] - 128 ELSE Frame[1]) \in {16, 32, 48, 64}
        /\ \A i \in (PayloadLen + 2)..Len(Frame) : Frame[i] = 0

C9_Witness ==
    /\ op.name = "neopixel_fill"
    /\ op.flag
    /\ calls = <<Call("gpled", <<144, 10, 20, 30, 0, 0, 0, 0, 0, 0, 0, 0, 0, 0, 0, 0>>)>>

\* C10: the mode is always LedGamepad (0) or Servo (1), so poll_gamepad never
\* takes the invalid-mode branch and never returns an absent reading, and
\* poll_gamepad leaves mode and nr_leds unchanged.
C10_ModeValid ==
    /\ cur_mode \in {0, 1}
    /\ op.name = "gamepad" =>
          /\ Len(calls) = 1
          /\ ret # "None"
          /\ cur_mode = pre_mode
          /\ nr_leds = pre_nr_leds

C10_Witness ==
    /\ op.name = "gamepad"
    /\ last_cmd = "servo"
    /\ g_cur_mode = <<1>>
    /\ ret = "reply"

====
